---- MODULE Spec2Model ----
(***************************************************************************)
(* ImarisReaderLogic (src/ImarisReader.py): the resolution-level probe     *)
(* get_resolution_levels and the loader run, which reads the metadata of   *)
(* the imaris reader library, resolves the origin, walks the channel       *)
(* groups of the HDF5 container and registers one volume node per channel. *)
(*                                                                         *)
(* Floating-point values are represented by integers.  A path              *)
(* 'DataSet/ResolutionLevel L/TimePoint T/Channel C' is the tuple          *)
(* <<L, T, C>>.  The text of an attribute is its sequence of               *)
(* blank-separated tokens.                                                 *)
(***************************************************************************)
EXTENDS Integers, Sequences, FiniteSets

VARIABLES file, scene, snapshots, openHandles, last

vars == <<file, scene, snapshots, openHandles, last>>

----------------------------------------------------------------------------
(* Bounds of the model *)

\* resolution levels a file may describe: 0 .. MaxLevel-1
MaxLevel == 2
\* channel slots per level: 0 .. MaxCh-1; a shape may announce 0 .. MaxCh
MaxCh == 2
\* containers opened before the model stops opening more
MaxOpen == 2

Levels == 0 .. (MaxLevel - 1)
Channels == 0 .. (MaxCh - 1)
\* levels a caller may ask for: one more than any file has
RequestLevels == 0 .. MaxLevel

----------------------------------------------------------------------------
(* The metadata store of the reader library: a dict keyed by               *)
(* (resolution, timepoint, channel, property)                              *)

res_key(level) == <<level, 0, 0, "resolution">>

shape_key(level) == <<level, 0, 0, "shape">>

\* 2^n
RECURSIVE Pow2(_)
Pow2(n) == IF n = 0 THEN 1 ELSE 2 * Pow2(n - 1)

\* spacing tuples (z, y, x) of level 0
BaseSpacings == {<<4, 2, 1>>, <<5, 3, 3>>}

\* the (z, y, x) spacing of a level of a file whose level 0 has spacing base
LevelSpacing(base, level) ==
  <<base[1] * Pow2(level), base[2] * Pow2(level), base[3] * Pow2(level)>>

\* the (t, c, z, y, x) shape of a level announcing nch channels
LevelShape(nch, level) == <<1, nch, 8 - level, 8 - level, 8 - level>>

\* which of its two keys a level has in the store
MetaKinds == {"none", "resolution", "shape", "both"}

MkMetaData(kinds, nch, base) ==
  LET keys == {res_key(l) : l \in {x \in Levels : kinds[x] \in {"resolution", "both"}}}
              \cup {shape_key(l) : l \in {x \in Levels : kinds[x] \in {"shape", "both"}}}
  IN [k \in keys |-> IF k[4] = "resolution" THEN LevelSpacing(base, k[1])
                                             ELSE LevelShape(nch, k[1])]

----------------------------------------------------------------------------
(* The HDF5 container: the channel groups that exist, each with its        *)
(* children in enumeration order                                           *)

\* a token of an attribute text: a number, or text that is no number
Num(v) == [ok |-> TRUE, v |-> v]
Junk == [ok |-> FALSE, v |-> 0]

SubGroup == [kind |-> "Group", attrNames |-> {}, ExtMin |-> <<>>]
DataArray == [kind |-> "Dataset", attrNames |-> {}, ExtMin |-> <<>>]
DataArrayExt(text) == [kind |-> "Dataset", attrNames |-> {"ExtMin"}, ExtMin |-> text]

\* ExtMin texts: a triple, a pair, and a number followed by text that is no
\* number
ExtMinTexts ==
  { <<Num(7), Num(8), Num(9)>>,
    <<Num(7), Num(8)>>,
    <<Num(7), Junk, Num(9)>> }

Absent == [present |-> FALSE, kids |-> <<>>]
Group(kids) == [present |-> TRUE, kids |-> kids]

\* contents of a channel group other than channel 0: no group, a group
\* without children, a group whose array follows a sub-group
GroupContents ==
  { Absent, Group(<<>>), Group(<<SubGroup, DataArray>>) }

\* contents of the channel 0 group: also an array with an ExtMin attribute,
\* alone or after an array without one
GroupContents0 ==
  GroupContents
    \cup { Group(<<DataArray, DataArrayExt(<<Num(1), Num(2), Num(3)>>)>>) }
    \cup { Group(<<DataArrayExt(t)>>) : t \in ExtMinTexts }

channel_group_path(level, channel) == <<level, 0, channel>>

\* layout: the contents of each channel group, the same at every level of
\* treeLevels
MkH5(treeLevels, layout) ==
  LET paths == {channel_group_path(l, c) : l \in treeLevels,
                                           c \in {x \in Channels : layout[x].present}}
  IN [p \in paths |-> layout[p[3]].kids]

\* files whose metadata varies, over a container with every group in place
MetaFiles ==
  { [metaData |-> MkMetaData(kinds, nch, base),
     hf |-> MkH5(Levels, [c \in Channels |-> Group(<<DataArray>>)])] :
      kinds \in [Levels -> MetaKinds], nch \in 0 .. MaxCh, base \in BaseSpacings }

Layouts ==
  { l \in [Channels -> GroupContents0] : \A c \in Channels : c > 0 => l[c] \in GroupContents }

\* the levels that have groups in the container: all, all but level 0,
\* level 0 only, none
TreeLevelSets == { Levels, Levels \ {0}, {0}, {} }

\* files whose container varies, under metadata with both keys at every level
TreeFiles ==
  { [metaData |-> MkMetaData([l \in Levels |-> "both"], nch, base),
     hf |-> MkH5(treeLevels, layout)] :
      nch \in 0 .. MaxCh, base \in {<<4, 2, 1>>},
      treeLevels \in TreeLevelSets, layout \in Layouts }

Files == MetaFiles \cup TreeFiles

----------------------------------------------------------------------------
(* get_resolution_levels *)

\* the while loop of get_resolution_levels, entered at `level` with the
\* entries found so far; the KeyError of a missing shape key leaves the
\* function, whose list is lost
RECURSIVE ProbeLevels(_, _, _)
ProbeLevels(metaData, level, resolutions) ==
  IF res_key(level) \in DOMAIN metaData
  THEN IF shape_key(level) \in DOMAIN metaData
       THEN ProbeLevels(metaData, level + 1,
                        Append(resolutions,
                               [level |-> level,
                                resolution |-> metaData[res_key(level)],
                                shape |-> metaData[shape_key(level)]]))
       ELSE [status |-> "raised", exc |-> "KeyError", msg |-> shape_key(level),
             value |-> <<>>]
  ELSE [status |-> "returned", exc |-> "none", msg |-> <<>>, value |-> resolutions]

\* the probe with `level = 1`
ResolutionLevelsFromOne(metaData) == ProbeLevels(metaData, 1, <<>>)

resolution_levels(metaData) == ProbeLevels(metaData, 0, <<>>)

----------------------------------------------------------------------------
(* run *)

\* the spacing handed on as stored, (z, y, x)
SpacingNotReversed(spacing_zyx) == spacing_zyx

\* Slicer uses (X, Y, Z) order, so the tuple is reversed
spacing_xyz(spacing_zyx) == <<spacing_zyx[3], spacing_zyx[2], spacing_zyx[1]>>

\* the numbers np.fromstring reads before the first token that is no number
RECURSIVE ParsedPrefix(_)
ParsedPrefix(text) ==
  IF Len(text) = 0 \/ ~Head(text).ok
  THEN <<>>
  ELSE <<Head(text).v>> \o ParsedPrefix(Tail(text))

\* np.fromstring(text, sep=' '): on unmatched data it raises ValueError
\* (raisesOnUnmatched) or, with a DeprecationWarning only, returns what it
\* read, depending on the numpy build
fromstring(text, raisesOnUnmatched) ==
  IF raisesOnUnmatched /\ \E i \in 1 .. Len(text) : ~text[i].ok
  THEN [raised |-> TRUE, value |-> <<>>]
  ELSE [raised |-> FALSE, value |-> ParsedPrefix(text)]

\* index of the first child at or after i that is a dataset with an ExtMin
\* attribute; 0 if none
RECURSIVE FirstExtMin(_, _)
FirstExtMin(kids, i) ==
  IF i > Len(kids) THEN 0
  ELSE IF kids[i].kind = "Dataset" /\ "ExtMin" \in kids[i].attrNames THEN i
  ELSE FirstExtMin(kids, i + 1)

DefaultOrigin == <<0, 0, 0>>

\* the origin block of run: the origin, and the warnings it logged
read_origin(hf, raisesOnUnmatched) ==
  IF channel_group_path(0, 0) \notin DOMAIN hf
  THEN [origin |-> DefaultOrigin, warnings |-> 1]
  ELSE LET res0_group == hf[channel_group_path(0, 0)]
           i == FirstExtMin(res0_group, 1)
       IN IF i = 0
          THEN [origin |-> DefaultOrigin, warnings |-> 0]
          ELSE LET parsed == fromstring(res0_group[i].ExtMin, raisesOnUnmatched)
               IN IF parsed.raised
                  THEN [origin |-> DefaultOrigin, warnings |-> 1]
                  ELSE [origin |-> parsed.value, warnings |-> 0]

\* index of the first child at or after i that is a dataset; 0 if none
RECURSIVE FirstDataset(_, _)
FirstDataset(kids, i) ==
  IF i > Len(kids) THEN 0
  ELSE IF kids[i].kind = "Dataset" THEN i
  ELSE FirstDataset(kids, i + 1)

\* f"Channel_{channel_index}-res_{resolutionLevelIndex}"
node_name(channel_index, level) == [channel |-> channel_index, res |-> level]

\* the volume node add_image_as_volume_node leaves in the scene
add_image_as_volume_node(image_array, name, spacing, origin) ==
  [name |-> name, array |-> image_array, spacing |-> spacing, origin |-> origin]

\* the channel loop of run, entered at channel_index with the nodes added so
\* far.  The KeyError of a missing group is h5py's: whether its text holds
\* the path (pathInKeyError) is the library's affair, run adds nothing to it.
RECURSIVE load_channels(_, _, _, _, _, _, _, _)
load_channels(hf, level, channel_index, num_channels, spacing, origin, nodes, pathInKeyError) ==
  IF channel_index >= num_channels
  THEN [status |-> "returned", exc |-> "none", msg |-> <<>>, channel |-> -1,
        nodes |-> nodes]
  ELSE LET path == channel_group_path(level, channel_index) IN
       IF path \notin DOMAIN hf
       THEN [status |-> "raised", exc |-> "KeyError",
             msg |-> IF pathInKeyError THEN path ELSE <<>>,
             channel |-> channel_index, nodes |-> nodes]
       ELSE LET d == FirstDataset(hf[path], 1) IN
            IF d = 0
            THEN [status |-> "raised", exc |-> "ValueError", msg |-> path,
                  channel |-> channel_index, nodes |-> nodes]
            ELSE load_channels(hf, level, channel_index + 1, num_channels,
                               spacing, origin,
                               Append(nodes,
                                      add_image_as_volume_node(
                                        [group |-> path, child |-> d],
                                        node_name(channel_index, level),
                                        spacing, origin)),
                               pathInKeyError)

\* the loop with range(1, num_channels)
ChannelLoopFromOne(hf, level, num_channels, spacing, origin, pathInKeyError) ==
  load_channels(hf, level, 1, num_channels, spacing, origin, <<>>, pathInKeyError)

\* for channel_index in range(num_channels), from an empty list of nodes
channel_loop(hf, level, num_channels, spacing, origin, pathInKeyError) ==
  load_channels(hf, level, 0, num_channels, spacing, origin, <<>>, pathInKeyError)

\* run(input_h5, enableScreenshots, resolutionLevelIndex): how it ends, the
\* nodes it added to the scene, the warnings it logged, the screenshots taken
run(f, enableScreenshots, level, raisesOnUnmatched, pathInKeyError) ==
  IF res_key(level) \notin DOMAIN f.metaData
  THEN [status |-> "raised", exc |-> "KeyError", msg |-> res_key(level),
        channel |-> -1, nodes |-> <<>>, warnings |-> 0, shots |-> 0]
  ELSE IF shape_key(level) \notin DOMAIN f.metaData
  THEN [status |-> "raised", exc |-> "KeyError", msg |-> shape_key(level),
        channel |-> -1, nodes |-> <<>>, warnings |-> 0, shots |-> 0]
  ELSE LET spacing_zyx == f.metaData[res_key(level)]
           shape_tczyx == f.metaData[shape_key(level)]
           o == read_origin(f.hf, raisesOnUnmatched)
           num_channels == shape_tczyx[2]
           r == channel_loop(f.hf, level, num_channels,
                             spacing_xyz(spacing_zyx), o.origin, pathInKeyError)
       IN [status |-> r.status, exc |-> r.exc, msg |-> r.msg,
           channel |-> r.channel, nodes |-> r.nodes, warnings |-> o.warnings,
           shots |-> IF r.status = "returned" /\ enableScreenshots THEN 1 ELSE 0]

----------------------------------------------------------------------------
(* The state machine.  file is the read-only input file; scene is the MRML  *)
(* scene's volume nodes in the order they were added; snapshots counts the  *)
(* screenshots in the scene; openHandles counts the containers opened and   *)
(* not closed; last is the most recent call and how it ended.               *)

NoCall ==
  [op |-> "none", level |-> 0, status |-> "none", exc |-> "none", msg |-> <<>>,
   channel |-> -1, value |-> <<>>, warnings |-> 0, before |-> 0]

Init ==
  /\ file \in Files
  /\ scene = <<>>
  /\ snapshots = 0
  /\ openHandles = 0
  /\ last = NoCall

\* logic.get_resolution_levels(path): ims(path) opens the container
GetResolutionLevels ==
  /\ openHandles < MaxOpen
  /\ LET r == resolution_levels(file.metaData)
     IN last' = [op |-> "get_resolution_levels", level |-> 0, status |-> r.status,
                 exc |-> r.exc, msg |-> r.msg, channel |-> -1, value |-> r.value,
                 warnings |-> 0, before |-> Len(scene)]
  /\ openHandles' = openHandles + 1
  /\ UNCHANGED <<file, scene, snapshots>>

\* logic.run(path, enableScreenshots, level): ims(path) opens the container
Run(level, enableScreenshots) ==
  /\ openHandles < MaxOpen
  /\ \E raisesOnUnmatched \in BOOLEAN, pathInKeyError \in BOOLEAN :
       LET r == run(file, enableScreenshots, level, raisesOnUnmatched, pathInKeyError)
       IN /\ scene' = scene \o r.nodes
          /\ snapshots' = snapshots + r.shots
          /\ last' = [op |-> "run", level |-> level, status |-> r.status,
                      exc |-> r.exc, msg |-> r.msg, channel |-> r.channel,
                      value |-> <<>>, warnings |-> r.warnings,
                      before |-> Len(scene)]
  /\ openHandles' = openHandles + 1
  /\ UNCHANGED file

\* ImarisReaderTest.setUp: slicer.mrmlScene.Clear(0)
setUp ==
  /\ scene' = <<>>
  /\ snapshots' = 0
  /\ last' = [NoCall EXCEPT !.op = "setUp"]
  /\ UNCHANGED <<file, openHandles>>

Next ==
  \/ GetResolutionLevels
  \/ \E level \in RequestLevels, enableScreenshots \in BOOLEAN :
       Run(level, enableScreenshots)
  \/ setUp

Spec == Init /\ [][Next]_vars

----------------------------------------------------------------------------
(* Vocabulary of the properties *)

\* the volume nodes the most recent call added to the scene
Added == SubSeq(scene, last.before + 1, Len(scene))

HasRes(l) == res_key(l) \in DOMAIN file.metaData

HasShape(l) == shape_key(l) \in DOMAIN file.metaData

\* the first level without a resolution key
FirstWithoutRes ==
  CHOOSE n \in 0 .. MaxLevel : ~HasRes(n) /\ \A l \in 0 .. (n - 1) : HasRes(l)

\* the first level that lacks one of its two keys
FirstIncomplete ==
  CHOOSE n \in 0 .. MaxLevel :
    /\ ~(HasRes(n) /\ HasShape(n))
    /\ \A l \in 0 .. (n - 1) : HasRes(l) /\ HasShape(l)

GroupExists(level, c) == <<level, 0, c>> \in DOMAIN file.hf

HasArray(level, c) ==
  /\ GroupExists(level, c)
  /\ \E i \in 1 .. Len(file.hf[<<level, 0, c>>]) :
       file.hf[<<level, 0, c>>][i].kind = "Dataset"

\* the first channel whose group is missing or holds no array
FirstBadChannel(level) ==
  CHOOSE k \in 0 .. MaxCh :
    ~HasArray(level, k) /\ \A j \in 0 .. (k - 1) : HasArray(level, j)

\* the call got past the metadata lookups of run
PastMetadata == last.op = "run" /\ HasRes(last.level) /\ HasShape(last.level)

\* the arrays of DataSet/ResolutionLevel 0/TimePoint 0/Channel 0 that carry
\* an ExtMin attribute
ExtMinArrays ==
  IF GroupExists(0, 0)
  THEN {i \in 1 .. Len(file.hf[<<0, 0, 0>>]) :
          /\ file.hf[<<0, 0, 0>>][i].kind = "Dataset"
          /\ "ExtMin" \in file.hf[<<0, 0, 0>>][i].attrNames}
  ELSE {}

\* a text that reads as exactly three numbers
IsTriple(text) == Len(text) = 3 /\ \A i \in 1 .. 3 : text[i].ok

\* the ExtMin attribute is there and is no floating-point triple
ExtMinUnparsable ==
  /\ ExtMinArrays # {}
  /\ LET i == CHOOSE x \in ExtMinArrays : \A y \in ExtMinArrays : x <= y
     IN ~IsTriple(file.hf[<<0, 0, 0>>][i].ExtMin)

----------------------------------------------------------------------------
(* Properties *)

\* C1: when every level below the first one without a resolution key has
\* its shape key (the metadata is contiguous from level 0 up to N-1),
\* get_resolution_levels returns exactly N entries whose 'level' fields are
\* 0, 1, ..., N-1 in that order, each with that level's resolution and
\* shape; with no level-0 resolution key it returns the empty sequence.
C1_LevelsContiguous ==
  (last.op = "get_resolution_levels"
     /\ \A l \in 0 .. (FirstWithoutRes - 1) : HasShape(l))
  => /\ last.status = "returned"
     /\ Len(last.value) = FirstWithoutRes
     /\ \A i \in 1 .. Len(last.value) :
          /\ last.value[i].level = i - 1
          /\ last.value[i].resolution = file.metaData[<<i - 1, 0, 0, "resolution">>]
          /\ last.value[i].shape = file.metaData[<<i - 1, 0, 0, "shape">>]

\* C1 witness: a store with both keys at every level 0 .. MaxLevel-1 has
\* been probed, and several levels were returned
C1_Witness ==
  /\ last.op = "get_resolution_levels"
  /\ FirstWithoutRes = MaxLevel
  /\ \A l \in Levels : HasShape(l)
  /\ Len(last.value) >= 2

\* C2: if the group of channel c of the requested level exists but holds no
\* array, and every channel below c was located, run raises the
\* ValueError (DataAbsent) that names exactly that group path.
C2_DataAbsentNamesPath ==
  PastMetadata
  => \A c \in Channels :
       (GroupExists(last.level, c) /\ FirstBadChannel(last.level) = c)
       => /\ last.status = "raised"
          /\ last.exc = "ValueError"
          /\ last.msg = <<last.level, 0, c>>

\* C3: if no channel group exists at the requested level and timepoint 0,
\* a run that found the level's metadata raises the ValueError (DataAbsent); a run never returns having
\* registered no volume.
C3_ZeroChannelsRaise ==
  PastMetadata
  => /\ (\A c \in Channels : ~GroupExists(last.level, c))
          => (last.status = "raised" /\ last.exc = "ValueError")
     /\ last.status = "returned" => Len(Added) >= 1

\* C4: when the ExtMin attribute is absent or is no floating-point triple,
\* every volume the run registers has origin (0, 0, 0), the origin does not
\* end the run, and when it is unparsable a warning has been logged.
C4_OriginFallsBack ==
  (PastMetadata /\ (ExtMinArrays = {} \/ ExtMinUnparsable))
  => /\ \A i \in 1 .. Len(Added) : Added[i].origin = <<0, 0, 0>>
     /\ ExtMinUnparsable => last.warnings >= 1

\* C5: no container opened by an operation is still open once the
\* operation has ended.
C5_NoOpenContainer == openHandles = 0

\* C6: when run stops at a channel whose group does not exist, the error
\* is the KeyError (NotFound) and carries the attempted group path; when
\* the group exists without an array it is the ValueError (DataAbsent); and
\* every channel below the one it stopped at was located.
C6_NotFoundCarriesPath ==
  (last.op = "run" /\ last.status = "raised" /\ last.channel >= 0)
  => /\ ~GroupExists(last.level, last.channel)
          => (last.exc = "KeyError" /\ last.msg = <<last.level, 0, last.channel>>)
     /\ GroupExists(last.level, last.channel)
          => (last.exc = "ValueError" /\ last.msg = <<last.level, 0, last.channel>>)
     /\ \A c \in 0 .. (last.channel - 1) : HasArray(last.level, c)

\* C7: a run that returns has registered exactly one volume per channel
\* group the container lists at that level and timepoint 0, in increasing
\* channel index, the i-th named Channel_<i>-res_<L>, all with one spacing
\* and one origin.
C7_OneVolumePerListedChannel ==
  (last.op = "run" /\ last.status = "returned")
  => /\ Len(Added) = Cardinality({c \in Channels : GroupExists(last.level, c)})
     /\ \A i \in 1 .. Len(Added) :
          /\ Added[i].name = [channel |-> i - 1, res |-> last.level]
          /\ Added[i].spacing = Added[1].spacing
          /\ Added[i].origin = Added[1].origin

\* C8: every volume a run at level L registers carries as spacing the
\* (z, y, x) tuple stored under (L, 0, 0, 'resolution') reversed to
\* (x, y, z): reversed once, not left as stored nor reversed back.
C8_SpacingReversedOnce ==
  last.op = "run"
  => \A i \in 1 .. Len(Added) :
       LET zyx == file.metaData[<<last.level, 0, 0, "resolution">>]
       IN Added[i].spacing = <<zyx[3], zyx[2], zyx[1]>>

\* C8 witness: a run at a level above 0 registered several volumes, and the
\* spacing it handed over differs from its own reverse
C8_Witness ==
  /\ last.op = "run"
  /\ last.level > 0
  /\ Len(Added) >= 2
  /\ Added[1].spacing[1] # Added[1].spacing[3]

\* C9: get_resolution_levels returns, without raising, exactly the levels
\* below the first level that lacks its 'resolution' or its 'shape' key.
C9_ProbeStopsAtMissingKey ==
  last.op = "get_resolution_levels"
  => /\ last.status = "returned"
     /\ Len(last.value) = FirstIncomplete
     /\ \A i \in 1 .. Len(last.value) : last.value[i].level = i - 1

\* C10: when run raises at channel k (the first channel whose group is
\* missing or holds no array), the scene holds, after what it held before
\* the call, exactly the k volumes of channels 0 .. k-1 and none of a
\* channel >= k.
C10_NoRollback ==
  (last.op = "run" /\ last.status = "raised" /\ last.channel >= 0)
  => /\ last.channel = FirstBadChannel(last.level)
     /\ last.exc \in {"KeyError", "ValueError"}
     /\ Len(scene) = last.before + last.channel
     /\ \A i \in 1 .. Len(Added) :
          /\ Added[i].name = [channel |-> i - 1, res |-> last.level]
          /\ Added[i].array.group = <<last.level, 0, i - 1>>

\* C10 witness: a run raised at a channel above 0, with the volumes of the
\* channels below it in the scene
C10_Witness ==
  /\ last.op = "run"
  /\ last.status = "raised"
  /\ last.channel >= 1
  /\ Len(Added) = last.channel

====
